---- MODULE Spec2Model ----
(***************************************************************************)
(* Model of the My Prabh front end: the AbhayMemoryTrainer class and the   *)
(* timers of MyPrabhAbhayExperience (static/js/myprabh-abhay-complete.js), *)
(* the console-effects heartbeat (unnamed/part_002), the chat of PrabhUI   *)
(* (static/js/prabh-ui.js), and the Memory Store of the design document,   *)
(* which has no implementation among the sources.                          *)
(*                                                                         *)
(* Numbers.  Trait weights are counted in units of 0.005 (1.0 = 200).      *)
(* Date.now() is counted in clock ticks, HourTicks to the hour.            *)
(* Importance is counted in units of 1/ImpScale, which makes every         *)
(* importance of calculateImportance an integer.                           *)
(***************************************************************************)
EXTENDS Integers, Sequences, FiniteSets, TLC

VARIABLES
    memoryTrainer,   \* the AbhayMemoryTrainer object of the page
    localStorage,    \* the item 'abhay_memory_trainer' of the browser
    now,             \* Date.now()
    user,            \* the owner signed in to the browser (never seen by the trainer)
    emotionalState,  \* MyPrabhAbhayExperience.emotionalState
    heart,           \* part_002: currentEmotionalState and glitchIntensity
    isInitialized,   \* MyPrabhAbhayExperience.isInitialized
    lastResponse,    \* the last call of getPersonalizedResponse and its result
    calls,           \* how many calls of each kind were made so far
    chatInput,       \* PrabhUI chat: the value of .chat-input
    chatMessages,    \* the children of .chat-messages, in document order
    requests,        \* the calls of sendMessage: where each stands
    chunks,          \* Memory Store: the chunks in underlying storage
    tombstoned,      \* the namespaces marked invisible to search, with
                     \* the chunks each held when it was marked
    storeClock,      \* the time of the Memory Store
    lastSearch,      \* the last call of search and its result
    lastSweep,       \* the last call of apply_retention: before, time, after
    level,           \* Personalization Engine: the state of the profile
    corpus,          \* the chunks of the profile: how many of each memory_type
    submitted,       \* the files handed to the upload area so far
    uploads,         \* the calls of handleFileUpload: where each stands
    progressBar,     \* .progress-fill: its width and whether it is displayed
    documentLoaded,  \* DOMContentLoaded has been dispatched
    listeners,       \* the DOMContentLoaded listeners init() has registered
    setupRuns,       \* how many times the setup sequence has run
    scrollY,         \* window.scrollY
    ticking,         \* setupScrollEffects: a frame is requested
    visible          \* the fade-in elements that carry the class 'visible'

trainerVars == <<memoryTrainer, localStorage, now, user, emotionalState, heart,
                 isInitialized, lastResponse, calls>>

chatVars == <<chatInput, chatMessages, requests>>

storeVars == <<chunks, tombstoned, storeClock, lastSearch, lastSweep>>

engineVars == <<level, corpus>>

uploadVars == <<submitted, uploads, progressBar>>

setupVars == <<documentLoaded, listeners, setupRuns>>

scrollVars == <<scrollY, ticking, visible>>

vars == <<trainerVars, chatVars, storeVars, engineVars, uploadVars, setupVars,
          scrollVars>>

-----------------------------------------------------------------------------
(* Bounds of the exploration *)

MaxTime == 1
MaxInteractions == 1
MaxEmotions == 1
MaxConsolidations == 2
MaxReloads == 1
MaxQuotaErrors == 1
MaxTurns == 3
MaxChunks == 3
MaxStoreTime == 3
TTL == 1
MaxInitCalls == 2
MaxCorpus == 5
MaxUploads == 2
MaxScroll == 3
MaxReveals == 3

-----------------------------------------------------------------------------
(* Program constants *)

One == 200               \* Math.min(1, ...) in units of 0.005
increment == 2           \* 0.01
decay == 1               \* 0.005
MaxInteractionHistory == 100
MaxEmotionHistory == 50
MaxMemories == 20
RecentInteractions == 10
RecentEmotions == 5
ContextInteractions == 5
TopRelevant == 3
HourTicks == 2           \* 1000 * 60 * 60 ms
ImpScale == 10 * HourTicks * 2520

Min(a, b) == IF a < b THEN a ELSE b
Max(a, b) == IF a > b THEN a ELSE b

\* seq.slice(-n)
LastN(seq, n) ==
    IF Len(seq) <= n THEN seq ELSE SubSeq(seq, Len(seq) - n + 1, Len(seq))

\* seq.slice(0, n)
FirstN(seq, n) == IF Len(seq) <= n THEN seq ELSE SubSeq(seq, 1, n)

Range(seq) == {seq[i] : i \in 1..Len(seq)}

RECURSIVE SumSeq(_)
SumSeq(seq) == IF seq = <<>> THEN 0 ELSE Head(seq) + SumSeq(Tail(seq))

-----------------------------------------------------------------------------
(* Inputs *)

Users == {"A", "B"}

\* the traits of the constructor
Traits == {"melancholic", "romantic", "nostalgic", "caring", "empathetic"}

\* labels the call sites of recordEmotion produce (the results of
\* MyPrabhAbhayExperience.analyzeInputEmotion and the text of the
\* indicators): no trait, the trait of least and the trait of most weight
EmotionInputs == {"neutral", "nostalgic", "empathetic"}

\* the interactions the listeners record: <<type, text carried in data>>
InteractionInputs == {<<"click", "">>, <<"input", "teal">>}

\* the words a user input is made of; "" is what split(' ') yields for an
\* empty input and around a leading, trailing or doubled blank
Words == {"", "teal", "sad"}

UserInputs == {<<w>> : w \in Words}

\* inputs of one word and of two
Queries == UserInputs \cup {<<"sad", "teal">>}

-----------------------------------------------------------------------------
(* AbhayMemoryTrainer *)

constructor ==
    [interactions |-> <<>>,
     emotions |-> <<>>,
     memories |-> <<>>,
     personalityProfile |->
        [melancholic |-> 160, romantic |-> 140, nostalgic |-> 120,
         caring |-> 180, empathetic |-> 190]]

getCurrentEmotion(t) ==
    IF Len(t.emotions) = 0 THEN "neutral"
    ELSE t.emotions[Len(t.emotions)].emotion

getEmotionalContext(t, clock) ==
    LET recentInteractions == LastN(t.interactions, ContextInteractions)
    IN [recentActions |-> [i \in 1..Len(recentInteractions) |-> recentInteractions[i].type],
        timeOfDay |-> (clock \div HourTicks) % 24,
        sessionLength |-> IF Len(t.interactions) > 0
                          THEN clock - t.interactions[1].timestamp ELSE 0]

\* updatePersonalityProfile without Math.max(0, ...)
updatePersonalityProfileNoFloor(profile, emotion) ==
    LET increased ==
            IF emotion \in DOMAIN profile /\ profile[emotion] # 0
            THEN [profile EXCEPT ![emotion] = Min(One, @ + increment)]
            ELSE profile
    IN [key \in DOMAIN increased |->
            IF key # emotion THEN increased[key] - decay ELSE increased[key]]

\* updatePersonalityProfile without the test of this.personalityProfile[emotion]
updatePersonalityProfileUnguarded(profile, emotion) ==
    LET increased ==
            [key \in DOMAIN profile \cup {emotion} |->
                IF key = emotion
                THEN Min(One, (IF key \in DOMAIN profile THEN profile[key] ELSE 0)
                              + increment)
                ELSE profile[key]]
    IN [key \in DOMAIN increased |->
            IF key # emotion THEN Max(0, increased[key] - decay)
            ELSE increased[key]]

\* a weight that is missing or 0 is falsy: the trait is then not increased
updatePersonalityProfile(profile, emotion) ==
    LET increased ==
            IF emotion \in DOMAIN profile /\ profile[emotion] # 0
            THEN [profile EXCEPT ![emotion] = Min(One, @ + increment)]
            ELSE profile
    IN [key \in DOMAIN increased |->
            IF key # emotion THEN Max(0, increased[key] - decay)
            ELSE increased[key]]

\* recordInteraction with pop() for shift(): the newest entry is dropped
recordInteractionPop(t, type, data, clock) ==
    LET interaction == [type |-> type, data |-> data, timestamp |-> clock,
                        emotion |-> getCurrentEmotion(t)]
        pushed == Append(t.interactions, interaction)
    IN [t EXCEPT !.interactions =
            IF Len(pushed) > MaxInteractionHistory
            THEN SubSeq(pushed, 1, Len(pushed) - 1) ELSE pushed]

recordInteraction(t, type, data, clock) ==
    LET interaction == [type |-> type, data |-> data, timestamp |-> clock,
                        emotion |-> getCurrentEmotion(t)]
        pushed == Append(t.interactions, interaction)
    IN [t EXCEPT !.interactions =
            IF Len(pushed) > MaxInteractionHistory THEN Tail(pushed) ELSE pushed]

recordEmotion(t, emotion, clock) ==
    LET emotionRecord == [emotion |-> emotion, timestamp |-> clock,
                          context |-> getEmotionalContext(t, clock)]
        pushed == Append(t.emotions, emotionRecord)
    IN [t EXCEPT !.emotions =
            IF Len(pushed) > MaxEmotionHistory THEN Tail(pushed) ELSE pushed,
                 !.personalityProfile = updatePersonalityProfile(@, emotion)]

\* importance * ImpScale; interactions is not empty
calculateImportance(interactions, emotions, clock) ==
    LET n == Len(interactions)
        uniqueEmotions == {emotions[i].emotion : i \in 1..Len(emotions)}
        ages == [i \in 1..n |-> clock - interactions[i].timestamp]
        \* Math.max(0, 1 - recency / hour) * 0.3, recency = sum / n
        fresh == Max(0, n * HourTicks - SumSeq(ages))
    IN (n * ImpScale) \div 10
       + (Cardinality(uniqueEmotions) * ImpScale) \div 5
       + 3 * fresh * (ImpScale \div (10 * n * HourTicks))

\* Array.prototype.sort((a, b) => b.importance - a.importance): stable
RECURSIVE InsertByImportance(_, _)
InsertByImportance(sorted, m) ==
    IF sorted = <<>> THEN <<m>>
    ELSE IF Head(sorted).importance >= m.importance
         THEN <<Head(sorted)>> \o InsertByImportance(Tail(sorted), m)
         ELSE <<m>> \o sorted

RECURSIVE SortByImportance(_)
SortByImportance(seq) ==
    IF seq = <<>> THEN <<>>
    ELSE InsertByImportance(SortByImportance(FirstN(seq, Len(seq) - 1)),
                            seq[Len(seq)])

\* consolidateMemories without the sort: the first 20 in the order of
\* creation are kept
consolidateMemoriesUnsorted(t, clock, writer) ==
    LET recentInteractions == LastN(t.interactions, RecentInteractions)
        recentEmotions == LastN(t.emotions, RecentEmotions)
        memory == [interactions |-> recentInteractions,
                   emotions |-> recentEmotions,
                   timestamp |-> clock,
                   importance |-> calculateImportance(recentInteractions,
                                                      recentEmotions, clock),
                   writer |-> writer]
    IN IF Len(recentInteractions) > 0
       THEN [t EXCEPT !.memories = FirstN(Append(@, memory), MaxMemories)]
       ELSE t

\* writer is no field of the code's memory: it records on whose behalf the
\* memory was written, for the claims about owners
consolidateMemories(t, clock, writer) ==
    LET recentInteractions == LastN(t.interactions, RecentInteractions)
        recentEmotions == LastN(t.emotions, RecentEmotions)
        memory == [interactions |-> recentInteractions,
                   emotions |-> recentEmotions,
                   timestamp |-> clock,
                   importance |-> calculateImportance(recentInteractions,
                                                      recentEmotions, clock),
                   writer |-> writer]
    IN IF Len(recentInteractions) > 0
       THEN [t EXCEPT !.memories =
                FirstN(SortByImportance(Append(@, memory)), MaxMemories)]
       ELSE t

\* the item is absent until the first successful setItem
NoItem == [absent |-> TRUE]

\* what JSON.stringify writes and JSON.parse reads back: the four fields
\* and lastUpdate; strings, integers, arrays and objects come back as written
serialized(t, clock) ==
    [interactions |-> t.interactions,
     emotions |-> t.emotions,
     memories |-> t.memories,
     personalityProfile |-> t.personalityProfile,
     lastUpdate |-> clock]

\* setItem either stores the item or throws (quota), which is caught
saveToStorage(t, clock, item, stored) ==
    IF stored THEN serialized(t, clock) ELSE item

\* { ...this.personalityProfile, ...parsed.personalityProfile }
SpreadMerge(own, parsed) ==
    [key \in DOMAIN own \cup DOMAIN parsed |->
        IF key \in DOMAIN parsed THEN parsed[key] ELSE own[key]]

loadFromStorage(t, item) ==
    IF item = NoItem THEN t
    ELSE [interactions |-> item.interactions,
          emotions |-> item.emotions,
          memories |-> item.memories,
          personalityProfile |->
              SpreadMerge(t.personalityProfile, item.personalityProfile)]

\* the keyword lists of analyzeInputEmotion, in the order of the object
EmotionOrder == <<"melancholic", "romantic", "nostalgic", "caring">>

emotionKeywords ==
    [melancholic |-> {"sad", "lonely", "empty", "hurt", "pain", "cry", "tears"},
     romantic |-> {"love", "heart", "beautiful", "kiss", "romance", "feelings"},
     nostalgic |-> {"remember", "past", "memory", "used to", "before", "miss"},
     caring |-> {"help", "support", "care", "worry", "concern", "comfort"}]

\* the input is the sequence of its blank-separated words, in lower case
KeywordScore(input, emotion) ==
    Cardinality({k \in emotionKeywords[emotion] : k \in Range(input)})

RECURSIVE DetectFrom(_, _, _, _)
DetectFrom(input, i, maxScore, detected) ==
    IF i > Len(EmotionOrder) THEN detected
    ELSE LET score == KeywordScore(input, EmotionOrder[i])
         IN IF score > maxScore
            THEN DetectFrom(input, i + 1, score, EmotionOrder[i])
            ELSE DetectFrom(input, i + 1, maxScore, detected)

analyzeInputEmotion(input) == DetectFrom(input, 1, 0, "neutral")

\* the property names JSON.stringify(memory) always writes, in lower case
JsonKeys == {"interactions", "emotions", "timestamp", "importance"}

\* the words of Words that occur in JSON.stringify(memory).toLowerCase();
\* "" occurs in every text
MemoryText(memory) ==
    {""} \cup JsonKeys
    \cup {memory.interactions[i].type : i \in 1..Len(memory.interactions)}
    \cup {memory.interactions[i].data : i \in 1..Len(memory.interactions)}
    \cup {memory.interactions[i].emotion : i \in 1..Len(memory.interactions)}
    \cup {memory.emotions[i].emotion : i \in 1..Len(memory.emotions)}
    \cup UNION {Range(memory.emotions[i].context.recentActions) :
                    i \in 1..Len(memory.emotions)}

Matches(memory, input) == \E i \in 1..Len(input) : input[i] \in MemoryText(memory)

RECURSIVE Filter(_, _)
Filter(seq, input) ==
    IF seq = <<>> THEN <<>>
    ELSE IF Matches(Head(seq), input)
         THEN <<Head(seq)>> \o Filter(Tail(seq), input)
         ELSE Filter(Tail(seq), input)

\* findRelevantMemories with slice(-3) for slice(0, 3)
findRelevantMemoriesLast(t, input) == LastN(Filter(t.memories, input), TopRelevant)

findRelevantMemories(t, input) == FirstN(Filter(t.memories, input), TopRelevant)

\* a response is one of the three sentences of an emotion, named by
\* <<emotion, index>>, with or without the sentence about earlier
\* conversations appended
ResponseEmotions == {"melancholic", "romantic", "nostalgic", "caring"}

\* generateAbhayResponse with memories.length >= 0 for memories.length > 0
generateAbhayResponseAlwaysRemembers(input, emotion, memories, random) ==
    [template |-> <<IF emotion \in ResponseEmotions THEN emotion ELSE "caring",
                    random>>,
     memoryClause |-> Len(memories) >= 0]

generateAbhayResponse(input, emotion, memories, random) ==
    [template |-> <<IF emotion \in ResponseEmotions THEN emotion ELSE "caring",
                    random>>,
     memoryClause |-> Len(memories) > 0]

\* random is Math.floor(Math.random() * 3)
getPersonalizedResponse(t, input, random) ==
    generateAbhayResponse(input, analyzeInputEmotion(input),
                          findRelevantMemories(t, input), random)

-----------------------------------------------------------------------------
(* MyPrabhAbhayExperience and the console effects *)

\* this.memoryTrainer = null
Null == [null |-> TRUE]

\* Math.random() in tenths
RandomTenths == 0..9

StateEmotions == <<"melancholic", "romantic", "nostalgic", "caring">>
StateWeights == <<4, 3, 2, 1>>

RECURSIVE SelectFrom(_, _)
SelectFrom(i, random) ==
    IF i > Len(StateEmotions) THEN StateEmotions[1]
    ELSE IF random < StateWeights[i] THEN StateEmotions[i]
         ELSE SelectFrom(i + 1, random - StateWeights[i])

updateEmotionalState(random) == SelectFrom(1, random)

HeartStates == {"hopeful", "desperate", "remembering", "broken"}

\* the switch of the heartbeat, in tenths
GlitchOf(state) ==
    CASE state = "desperate" -> 8
      [] state = "broken" -> 10
      [] state = "remembering" -> 5
      [] OTHER -> 3

\* the state of an earlier session that opened the page and recorded one
\* emotion k times, nothing else: the last 50 records and the weights of k
\* rounds of updatePersonalityProfile (no weight of the constructor is 0)
EarlierSession(emotion, k) ==
    [interactions |-> <<>>,
     emotions |-> [i \in 1..Min(k, MaxEmotionHistory) |->
                     [emotion |-> emotion, timestamp |-> 0,
                      context |-> getEmotionalContext(constructor, 0)]],
     memories |-> <<>>,
     personalityProfile |->
        [key \in Traits |->
            IF key = emotion
            THEN Min(One, constructor.personalityProfile[key] + k * increment)
            ELSE Max(0, constructor.personalityProfile[key] - k * decay)]]

\* the trainer of a session that recorded n clicks and then k times the
\* emotion 'neutral', one tick apart, the last one a tick ago; n and k are
\* within the caps, so nothing was dropped
Recorded(n, k) ==
    LET clicks == [i \in 1..n |->
                     [type |-> "click", data |-> "",
                      timestamp |-> i - 1 - n - k, emotion |-> "neutral"]]
        clicked == [constructor EXCEPT !.interactions = clicks]
    IN [interactions |-> clicks,
        emotions |-> [j \in 1..k |->
                        [emotion |-> "neutral", timestamp |-> j - 1 - k,
                         context |-> getEmotionalContext(clicked, j - 1 - k)]],
        memories |-> <<>>,
        personalityProfile |->
            [key \in Traits |->
                Max(0, constructor.personalityProfile[key] - k * decay)]]

\* sessions with empty histories, with histories one short of the caps, and
\* with full histories
HistoryStarts ==
    {Recorded(0, 0),
     Recorded(MaxInteractionHistory - 1, MaxEmotionHistory - 1),
     Recorded(MaxInteractionHistory, MaxEmotionHistory)}

\* the trainer of a session of owner A that m times recorded a click and
\* consolidated, all within the tick before now (m within the caps): the
\* memory of round j holds the last min(j, 10) clicks, and the sort leaves
\* the memories of most clicks first, in the order of their creation
Rounds(m) ==
    LET clicks(n) == [i \in 1..n |->
                        [type |-> "click", data |-> "", timestamp |-> -1,
                         emotion |-> "neutral"]]
        memory(n) == [interactions |-> clicks(n),
                      emotions |-> <<>>,
                      timestamp |-> -1,
                      importance |-> calculateImportance(clicks(n), <<>>, -1),
                      writer |-> "A"]
    IN [constructor EXCEPT
            !.interactions = clicks(m),
            !.memories = [p \in 1..m |-> memory(Min(RecentInteractions, m + 1 - p))]]

\* sessions with no memory, with one memory less than the list keeps, with
\* a full list, and with a full list and an emotion recorded after it
MemoryStarts ==
    {Rounds(0), Rounds(MaxMemories - 1), Rounds(MaxMemories),
     recordEmotion(Rounds(MaxMemories), "nostalgic", -1)}

\* what the browser may hold when the page opens: nothing, or what an
\* earlier session saved
EarlierItems ==
    {NoItem} \cup {serialized(EarlierSession(s[1], s[2]), 0) :
                      s \in {<<"neutral", 120>>, <<"empathetic", 5>>}}

\* no call of getPersonalizedResponse was made yet
NoResponse == [absent |-> TRUE]

NoCalls ==
    [interaction |-> 0, emotion |-> 0, consolidate |-> 0, reload |-> 0,
     quota |-> 0]

\* the outcomes of setItem that are still explored
Outcomes == IF calls.quota < MaxQuotaErrors THEN BOOLEAN ELSE {TRUE}

Count(kind, stored) ==
    [calls EXCEPT ![kind] = @ + 1,
                  !.quota = IF stored THEN @ ELSE @ + 1]

InitTrainer ==
    /\ memoryTrainer = Null
    /\ localStorage \in EarlierItems
    /\ now = 0
    /\ user = "A"
    /\ emotionalState = "melancholic_caring"
    /\ heart = [currentEmotionalState |-> "hopeful", glitchIntensity |-> 3]
    /\ isInitialized = FALSE
    /\ lastResponse = NoResponse
    /\ calls = NoCalls

\* the constructor has called init() once, before the document was loaded
InitSetup ==
    /\ documentLoaded = FALSE
    /\ listeners = 1
    /\ setupRuns = 0

\* const myPrabhAbhayExperience = new MyPrabhAbhayExperience(): the script
\* runs, and the constructor calls init()
NewExperience ==
    /\ listeners = 0
    /\ listeners' = 1
    /\ UNCHANGED <<trainerVars, chatVars, storeVars, engineVars, uploadVars,
                   documentLoaded, setupRuns, scrollVars>>

\* init(), called again on the constructed object: one more listener unless
\* the setup has run
init ==
    /\ listeners > 0
    /\ listeners < MaxInitCalls
    /\ listeners' = IF isInitialized THEN listeners ELSE listeners + 1
    /\ UNCHANGED <<trainerVars, chatVars, storeVars, engineVars, uploadVars,
                   documentLoaded, setupRuns, scrollVars>>

\* the document dispatches DOMContentLoaded, once: every registered
\* listener runs the setup sequence (the trainer and the emotion of the last
\* one stay)
DOMContentLoaded(random) ==
    /\ ~documentLoaded
    /\ documentLoaded' = TRUE
    /\ IF listeners > 0
       THEN /\ memoryTrainer' = constructor
            /\ emotionalState' = updateEmotionalState(random)
            /\ isInitialized' = TRUE
       ELSE UNCHANGED <<memoryTrainer, emotionalState, isInitialized>>
    /\ setupRuns' = setupRuns + listeners
    /\ UNCHANGED <<localStorage, now, user, heart, lastResponse, calls, chatVars, storeVars,
                   engineVars, uploadVars, listeners, scrollVars>>

\* the clock advances
Tick ==
    /\ now < MaxTime
    /\ now' = now + 1
    /\ UNCHANGED <<memoryTrainer, localStorage, user, emotionalState, heart,
                   isInitialized, lastResponse, calls, chatVars, storeVars,
                   engineVars, uploadVars, setupVars, scrollVars>>

\* the click, input and scroll listeners
RecordInteraction(input, stored) ==
    /\ memoryTrainer # Null
    /\ calls.interaction < MaxInteractions
    /\ memoryTrainer' = recordInteraction(memoryTrainer, input[1], input[2], now)
    /\ localStorage' = saveToStorage(memoryTrainer', now, localStorage, stored)
    /\ calls' = Count("interaction", stored)
    /\ UNCHANGED <<now, user, emotionalState, heart, isInitialized, lastResponse, chatVars, storeVars,
                   engineVars, uploadVars, setupVars, scrollVars>>

\* analyzeInputEmotion of a form field, or the pointer entering an indicator
RecordEmotion(emotion, stored) ==
    /\ memoryTrainer # Null
    /\ calls.emotion < MaxEmotions
    /\ memoryTrainer' = recordEmotion(memoryTrainer, emotion, now)
    /\ localStorage' = saveToStorage(memoryTrainer', now, localStorage, stored)
    /\ calls' = Count("emotion", stored)
    /\ UNCHANGED <<now, user, emotionalState, heart, isInitialized, lastResponse, chatVars, storeVars,
                   engineVars, uploadVars, setupVars, scrollVars>>

\* startEmotionalLoop: setInterval(consolidateMemories, 60000)
ConsolidateTimer(stored) ==
    /\ memoryTrainer # Null
    /\ calls.consolidate < MaxConsolidations
    /\ memoryTrainer' = consolidateMemories(memoryTrainer, now, user)
    /\ localStorage' =
          IF Len(LastN(memoryTrainer.interactions, RecentInteractions)) > 0
          THEN saveToStorage(memoryTrainer', now, localStorage, stored)
          ELSE localStorage
    /\ calls' = Count("consolidate", stored)
    /\ UNCHANGED <<now, user, emotionalState, heart, isInitialized, lastResponse, chatVars, storeVars,
                   engineVars, uploadVars, setupVars, scrollVars>>

LoadFromStorage ==
    /\ memoryTrainer # Null
    /\ memoryTrainer' = loadFromStorage(memoryTrainer, localStorage)
    /\ UNCHANGED <<localStorage, now, user, emotionalState, heart,
                   isInitialized, lastResponse, calls, chatVars, storeVars,
                   engineVars, uploadVars, setupVars, scrollVars>>

\* a call of getPersonalizedResponse on behalf of the signed-in owner; the
\* result is kept with the input and the state it was made from
GetPersonalizedResponse(input, random) ==
    /\ memoryTrainer # Null
    /\ lastResponse' =
          [input |-> input,
           user |-> user,
           profile |-> memoryTrainer.personalityProfile,
           stored |-> memoryTrainer.memories,
           relevant |-> findRelevantMemories(memoryTrainer, input),
           response |-> getPersonalizedResponse(memoryTrainer, input, random)]
    /\ UNCHANGED <<memoryTrainer, localStorage, now, user, emotionalState,
                   heart, isInitialized, calls, chatVars, storeVars,
                   engineVars, uploadVars, setupVars, scrollVars>>

\* initializeAbhayPersonality: setInterval(updateEmotionalState, 30000)
EmotionalStateTimer(random) ==
    /\ isInitialized
    /\ emotionalState' = updateEmotionalState(random)
    /\ UNCHANGED <<memoryTrainer, localStorage, now, user, heart,
                   isInitialized, lastResponse, calls, chatVars, storeVars,
                   engineVars, uploadVars, setupVars, scrollVars>>

\* abhayEffects.setEmotionalState: other states are ignored
SetEmotionalState(state) ==
    /\ heart' = IF state \in HeartStates
                THEN [heart EXCEPT !.currentEmotionalState = state]
                ELSE heart
    /\ UNCHANGED <<memoryTrainer, localStorage, now, user, emotionalState,
                   isInitialized, lastResponse, calls, chatVars, storeVars,
                   engineVars, uploadVars, setupVars, scrollVars>>

\* startEmotionalHeartbeat: setInterval(..., 2000)
HeartbeatTimer ==
    /\ heart' = [heart EXCEPT !.glitchIntensity = GlitchOf(heart.currentEmotionalState)]
    /\ UNCHANGED <<memoryTrainer, localStorage, now, user, emotionalState,
                   isInitialized, lastResponse, calls, chatVars, storeVars,
                   engineVars, uploadVars, setupVars, scrollVars>>

\* the page is opened again, by the same or another owner; the item stays
Reload(owner) ==
    /\ calls.reload < MaxReloads
    /\ memoryTrainer' = Null
    /\ isInitialized' = FALSE
    /\ emotionalState' = "melancholic_caring"
    /\ heart' = [currentEmotionalState |-> "hopeful", glitchIntensity |-> 3]
    /\ user' = owner
    /\ calls' = [calls EXCEPT !.reload = @ + 1]
    /\ documentLoaded' = FALSE
    /\ listeners' = 1
    /\ setupRuns' = 0
    /\ scrollY' = 0
    /\ ticking' = FALSE
    /\ visible' = {}
    /\ UNCHANGED <<localStorage, now, lastResponse, chatVars, storeVars,
                   engineVars, uploadVars>>

\* window.AbhayMemoryTrainer: new AbhayMemoryTrainer(), by the same or
\* another owner of the browser
Construct(owner) ==
    /\ calls.reload < MaxReloads
    /\ memoryTrainer' = constructor
    /\ user' = owner
    /\ calls' = [calls EXCEPT !.reload = @ + 1]
    /\ UNCHANGED <<localStorage, now, emotionalState, heart, isInitialized,
                   lastResponse, chatVars, storeVars,
                   engineVars, uploadVars, setupVars, scrollVars>>

-----------------------------------------------------------------------------
(* PrabhUI.initializeChat *)

\* what the user may have typed: nothing, blanks, a message
ChatInputs == {"", " ", "hi"}

\* String.prototype.trim
trim(text) == IF text = " " THEN "" ELSE text

FallbackText == "I'm having some trouble right now"

\* how fetch('/api/chat') settles
FetchOutcomes == {"response", "rejected"}

\* how response.json() settles: a body with a text in response (and perhaps
\* a method), a JSON body without a text in response, the body null, or a
\* body that is no JSON
BodyOutcomes == {"reply", "replyWithMethod", "noResponse", "null", "notJson"}

addMessage(container, text, sender, turn) ==
    Append(container, [kind |-> sender, text |-> text, turn |-> turn])

addTypingIndicator(container, turn) ==
    Append(container, [kind |-> "typing", text |-> "", turn |-> turn])

\* Element.remove(): no effect when the element is not in the document
RECURSIVE removeIndicator(_, _)
removeIndicator(container, turn) ==
    IF container = <<>> THEN <<>>
    ELSE IF Head(container).kind = "typing" /\ Head(container).turn = turn
         THEN removeIndicator(Tail(container), turn)
         ELSE <<Head(container)>> \o removeIndicator(Tail(container), turn)

\* the catch block without the fallback message
catchBlockSilent(container, turn) == removeIndicator(container, turn)

\* the catch block of sendMessage
catchBlock(container, turn) ==
    addMessage(removeIndicator(container, turn), FallbackText, "prabh", turn)

\* the try block after await response.json(); formatMessage throws on a
\* text that is no string, before the message is appended
afterJson(container, turn, body) ==
    CASE body \in {"reply", "replyWithMethod"} ->
            addMessage(removeIndicator(container, turn), "server", "prabh", turn)
      [] body \in {"noResponse", "null"} ->
            catchBlock(removeIndicator(container, turn), turn)
      [] OTHER -> catchBlock(container, turn)

InitChat ==
    /\ chatInput = ""
    /\ chatMessages = <<>>
    /\ requests = <<>>

\* the user edits the input
TypeMessage(text) ==
    /\ chatInput' = text
    /\ chatInput # text
    /\ UNCHANGED <<chatMessages, requests, trainerVars, storeVars,
                   engineVars, uploadVars, setupVars, scrollVars>>

\* Enter or the send button: sendMessage up to the await of fetch
SendMessage ==
    /\ Len(requests) < MaxTurns
    /\ LET message == trim(chatInput)
           turn == Len(requests) + 1
       IN IF message = ""
          THEN UNCHANGED <<chatInput, chatMessages, requests>>
          ELSE /\ chatMessages' =
                    addTypingIndicator(addMessage(chatMessages, message, "user", turn), turn)
               /\ chatInput' = ""
               /\ requests' = Append(requests, [pc |-> "fetch", toast |-> "none"])
    /\ UNCHANGED <<trainerVars, storeVars,
                   engineVars, uploadVars, setupVars, scrollVars>>

\* fetch settles: the response arrives, or the request is rejected
FetchSettles(turn, outcome) ==
    /\ turn \in 1..Len(requests)
    /\ requests[turn].pc = "fetch"
    /\ IF outcome = "response"
       THEN /\ requests' = [requests EXCEPT ![turn].pc = "json"]
            /\ UNCHANGED chatMessages
       ELSE /\ chatMessages' = catchBlock(chatMessages, turn)
            /\ requests' = [requests EXCEPT ![turn] = [pc |-> "done", toast |-> "error"]]
    /\ UNCHANGED <<chatInput, trainerVars, storeVars,
                   engineVars, uploadVars, setupVars, scrollVars>>

\* response.json() settles and the rest of sendMessage runs
JsonSettles(turn, body) ==
    /\ turn \in 1..Len(requests)
    /\ requests[turn].pc = "json"
    /\ chatMessages' = afterJson(chatMessages, turn, body)
    /\ requests' = [requests EXCEPT ![turn] =
          [pc |-> "done",
           toast |-> CASE body = "reply" -> "none"
                       [] body = "replyWithMethod" -> "info"
                       [] OTHER -> "error"]]
    /\ UNCHANGED <<chatInput, trainerVars, storeVars,
                   engineVars, uploadVars, setupVars, scrollVars>>

-----------------------------------------------------------------------------
(* Memory Store, from the design: write, search, delete_namespace as        *)
(* tombstone-then-purge, apply_retention                                    *)

Companions == {"X"}

Namespaces == Users \X Companions

RetentionClasses == {"short_term", "mid_term", "long_term"}

Nothing == [absent |-> TRUE]

NamespaceOf(chunk) == <<chunk.owner_id, chunk.companion_id>>

ChunksOf(storage, namespace) == {c \in storage : NamespaceOf(c) = namespace}

Marked == {t.namespace : t \in tombstoned}

\* write(chunk): a new chunk of the namespace
write(storage, namespace, class, id, clock) ==
    storage \cup {[id |-> id, owner_id |-> namespace[1],
                   companion_id |-> namespace[2],
                   retention_class |-> class, created_at |-> clock]}

\* search without the test of the mark
searchUnmarked(storage, marked, namespace) == ChunksOf(storage, namespace)

\* search(owner_id, companion_id, ...): the chunks of the namespace, none
\* when the namespace is marked invisible
search(storage, marked, namespace) ==
    IF namespace \in marked THEN {} ELSE ChunksOf(storage, namespace)

Expired(chunk, clock) ==
    chunk.retention_class = "short_term" /\ clock - chunk.created_at > TTL

\* apply_retention that takes every chunk older than the TTL
apply_retentionAnyClass(storage, clock) ==
    {c \in storage : ~(clock - c.created_at > TTL)}

\* apply_retention(): short_term chunks older than the TTL are deleted
apply_retention(storage, clock) == {c \in storage : ~Expired(c, clock)}

InitStore ==
    /\ chunks = {}
    /\ tombstoned = {}
    /\ storeClock = 0
    /\ lastSearch = Nothing
    /\ lastSweep = Nothing

StoreTick ==
    /\ storeClock < MaxStoreTime
    /\ storeClock' = storeClock + 1
    /\ UNCHANGED <<chunks, tombstoned, lastSearch, lastSweep, trainerVars, chatVars,
                   engineVars, uploadVars, setupVars, scrollVars>>

\* writes wait at the deletion boundary of their namespace
Write(namespace, class) ==
    /\ namespace \notin Marked
    /\ \E id \in 1..MaxChunks :
          /\ id \notin {c.id : c \in chunks}
          /\ \A other \in 1..MaxChunks : other < id => other \in {c.id : c \in chunks}
          /\ chunks' = write(chunks, namespace, class, id, storeClock)
    /\ UNCHANGED <<tombstoned, storeClock, lastSearch, lastSweep, trainerVars, chatVars,
                   engineVars, uploadVars, setupVars, scrollVars>>

\* a call of search; full is what the namespace held before its deletion
\* began, or holds now when no deletion is under way
Search(namespace) ==
    /\ lastSearch' =
          [namespace |-> namespace,
           result |-> search(chunks, Marked, namespace),
           deleting |-> namespace \in Marked,
           stored |-> ChunksOf(chunks, namespace),
           full |-> IF namespace \in Marked
                    THEN UNION {t.before : t \in {m \in tombstoned : m.namespace = namespace}}
                    ELSE ChunksOf(chunks, namespace)]
    /\ UNCHANGED <<chunks, tombstoned, storeClock, lastSweep, trainerVars, chatVars,
                   engineVars, uploadVars, setupVars, scrollVars>>

\* delete_namespace, first phase: the atomic flag flip
Tombstone(namespace) ==
    /\ namespace \notin Marked
    /\ tombstoned' = tombstoned \cup
          {[namespace |-> namespace, before |-> ChunksOf(chunks, namespace)]}
    /\ UNCHANGED <<chunks, storeClock, lastSearch, lastSweep, trainerVars, chatVars,
                   engineVars, uploadVars, setupVars, scrollVars>>

\* delete_namespace, second phase: one chunk is purged from storage
Purge(chunk) ==
    /\ chunk \in chunks
    /\ NamespaceOf(chunk) \in Marked
    /\ chunks' = chunks \ {chunk}
    /\ UNCHANGED <<tombstoned, storeClock, lastSearch, lastSweep, trainerVars, chatVars,
                   engineVars, uploadVars, setupVars, scrollVars>>

\* delete_namespace returns once nothing of the namespace is left
DeleteDone(namespace) ==
    /\ namespace \in Marked
    /\ ChunksOf(chunks, namespace) = {}
    /\ tombstoned' = {t \in tombstoned : t.namespace # namespace}
    /\ UNCHANGED <<chunks, storeClock, lastSearch, lastSweep, trainerVars, chatVars,
                   engineVars, uploadVars, setupVars, scrollVars>>

ApplyRetention ==
    /\ chunks' = apply_retention(chunks, storeClock)
    /\ lastSweep' = [before |-> chunks, time |-> storeClock, after |-> chunks']
    /\ UNCHANGED <<tombstoned, storeClock, lastSearch, trainerVars, chatVars,
                   engineVars, uploadVars, setupVars, scrollVars>>

-----------------------------------------------------------------------------
(* MyPrabhAbhayExperience: the scroll effects *)

\* the .fade-in-scroll elements of the page, in document order, and how far
\* below the top of the document each begins
FadeElements == <<"hero", "story">>

OffsetTop(element) == CASE element = "hero" -> 3 [] element = "story" -> 6

\* window.innerHeight
WindowHeight == 5

\* element.getBoundingClientRect().top
elementTop(element, y) == OffsetTop(element) - y

\* elementTop < windowHeight * 0.8
InView(element, y) == 5 * elementTop(element, y) < 4 * WindowHeight

\* the forEach over fadeElements from the i-th element on: every element in
\* view is recorded, and each recordInteraction saves; stored tells for
\* each element whether its setItem succeeds
RECURSIVE updateScrollEffects(_, _, _, _, _, _)
updateScrollEffects(t, item, i, y, clock, stored) ==
    IF i > Len(FadeElements) THEN [trainer |-> t, item |-> item]
    ELSE LET element == FadeElements[i]
             recorded == recordInteraction(t, "scroll_reveal",
                            [element |-> element,
                             position |-> elementTop(element, y)], clock)
         IN IF InView(element, y)
            THEN updateScrollEffects(recorded,
                     saveToStorage(recorded, clock, item, stored[element]),
                     i + 1, y, clock, stored)
            ELSE updateScrollEffects(t, item, i + 1, y, clock, stored)

\* the scroll_reveal interactions the history holds for an element
Reveals(t, element) ==
    {i \in 1..Len(t.interactions) :
        /\ t.interactions[i].type = "scroll_reveal"
        /\ t.interactions[i].data.element = element}

InitScroll ==
    /\ scrollY = 0
    /\ ticking = FALSE
    /\ visible = {}

\* a scroll event: requestScrollUpdate asks for a frame unless one is asked for
Scroll(y) ==
    /\ y # scrollY
    /\ scrollY' = y
    /\ ticking' = TRUE
    /\ UNCHANGED <<visible, trainerVars, chatVars, storeVars, engineVars,
                   uploadVars, setupVars>>

\* the animation frame runs updateScrollEffects
AnimationFrame(stored) ==
    /\ ticking
    /\ memoryTrainer # Null
    /\ \A i \in 1..Len(FadeElements) :
          Cardinality(Reveals(memoryTrainer, FadeElements[i])) < MaxReveals
    /\ LET after == updateScrollEffects(memoryTrainer, localStorage, 1,
                                        scrollY, now, stored)
       IN /\ memoryTrainer' = after.trainer
          /\ localStorage' = after.item
    /\ visible' = visible \cup {FadeElements[i] : i \in
                      {j \in 1..Len(FadeElements) : InView(FadeElements[j], scrollY)}}
    /\ ticking' = FALSE
    /\ UNCHANGED <<scrollY, now, user, emotionalState, heart, isInitialized,
                   lastResponse, calls, chatVars, storeVars, engineVars,
                   uploadVars, setupVars>>

-----------------------------------------------------------------------------
(* PrabhUI: the upload area of the training page *)

Files == {"a.txt", "b.txt"}

\* e.dataTransfer.files of a drop, e.target.files of a change
FileLists == {<<>>, <<"a.txt">>, <<"b.txt">>, <<"a.txt", "b.txt">>}

\* Math.random() * 30, in steps of 30 percent
ProgressSteps == {1, 2}

UploadFetchOutcomes == {"ok", "httpError", "rejected"}

UploadBodyOutcomes == {"json", "notJson"}

\* the catch block of handleFileUpload
uploadFailed(attempt) ==
    [attempt EXCEPT !.pc = "done", !.toasts = Append(@, "error")]

\* handleFileUpload(file) up to await fetch; files[0] of an empty list is
\* undefined, and the call returns
handleFileUpload(list, files) ==
    IF files = <<>> THEN list
    ELSE Append(list, [file |-> files[1], pc |-> "fetch", timer |-> TRUE,
                       progress |-> 0, toasts |-> <<>>])

InitUpload ==
    /\ submitted = {}
    /\ uploads = <<>>
    /\ progressBar = [width |-> 0, display |-> "none"]

\* the drop listener: this.handleFileUpload(files[0], progressBar)
Drop(files) ==
    /\ Len(uploads) < MaxUploads
    /\ submitted' = submitted \cup Range(files)
    /\ uploads' = handleFileUpload(uploads, files)
    /\ progressBar' = IF files = <<>> THEN progressBar
                      ELSE [width |-> 0, display |-> "block"]
    /\ UNCHANGED <<trainerVars, chatVars, storeVars, engineVars, setupVars, scrollVars>>

\* the change listener of the file input: only with a file chosen
Change(files) ==
    /\ Len(uploads) < MaxUploads
    /\ Len(files) > 0
    /\ submitted' = submitted \cup Range(files)
    /\ uploads' = handleFileUpload(uploads, files)
    /\ progressBar' = [width |-> 0, display |-> "block"]
    /\ UNCHANGED <<trainerVars, chatVars, storeVars, engineVars, setupVars, scrollVars>>

\* the callback of progressInterval, every 200 ms while it is not cleared
ProgressInterval(k, step) ==
    /\ k \in 1..Len(uploads)
    /\ uploads[k].timer
    /\ uploads' = [uploads EXCEPT ![k].progress = Min(3, @ + step)]
    /\ progressBar' = [progressBar EXCEPT !.width = 30 * uploads'[k].progress]
    /\ UNCHANGED <<submitted, trainerVars, chatVars, storeVars, engineVars, setupVars, scrollVars>>

\* await fetch('/api/memory/upload') settles
UploadFetchSettles(k, outcome) ==
    /\ k \in 1..Len(uploads)
    /\ uploads[k].pc = "fetch"
    /\ IF outcome = "rejected"
       THEN /\ uploads' = [uploads EXCEPT ![k] = uploadFailed(@)]
            /\ progressBar' = [progressBar EXCEPT !.display = "none"]
       ELSE IF outcome = "httpError"
       THEN /\ uploads' = [uploads EXCEPT
                              ![k] = uploadFailed([@ EXCEPT !.timer = FALSE])]
            /\ progressBar' = [width |-> 100, display |-> "none"]
       ELSE /\ uploads' = [uploads EXCEPT ![k].timer = FALSE, ![k].pc = "json"]
            /\ progressBar' = [progressBar EXCEPT !.width = 100]
    /\ UNCHANGED <<submitted, trainerVars, chatVars, storeVars, engineVars, setupVars, scrollVars>>

\* await response.json() settles
UploadJsonSettles(k, body) ==
    /\ k \in 1..Len(uploads)
    /\ uploads[k].pc = "json"
    /\ IF body = "json"
       THEN /\ uploads' = [uploads EXCEPT ![k].pc = "hiding",
                                          ![k].toasts = Append(@, "success")]
            /\ UNCHANGED progressBar
       ELSE /\ uploads' = [uploads EXCEPT ![k] = uploadFailed(@)]
            /\ progressBar' = [progressBar EXCEPT !.display = "none"]
    /\ UNCHANGED <<submitted, trainerVars, chatVars, storeVars, engineVars, setupVars, scrollVars>>

\* the setTimeout of the success path, after 2000 ms
HideTimeout(k) ==
    /\ k \in 1..Len(uploads)
    /\ uploads[k].pc = "hiding"
    /\ uploads' = [uploads EXCEPT ![k].pc = "done"]
    /\ progressBar' = [progressBar EXCEPT !.display = "none"]
    /\ UNCHANGED <<submitted, trainerVars, chatVars, storeVars, engineVars, setupVars, scrollVars>>

-----------------------------------------------------------------------------
(* Personalization Engine: the state machine of a profile (spec 4.5) *)

MemoryTypes == {"emotional", "factual", "conversational"}

\* the configured thresholds: N chunks, M > N chunks, and the number of
\* memory_type values ENHANCED asks for
SeedThreshold == 2
EnhanceThreshold == 3
MinDiversity == 2

Rank(l) == CASE l = "EMPTY" -> 0 [] l = "SEEDED" -> 1 [] l = "ENHANCED" -> 2

Volume(c) == c["emotional"] + c["factual"] + c["conversational"]

Diversity(c) == Cardinality({type \in MemoryTypes : c[type] > 0})

\* the state recomputed from the volume alone, whatever it was
advanceFromVolume(l, c, confident) ==
    IF Volume(c) >= EnhanceThreshold /\ confident THEN "ENHANCED"
    ELSE IF Volume(c) >= SeedThreshold THEN "SEEDED"
    ELSE "EMPTY"

\* the state after an analysis of the chunks: one step forward when the
\* thresholds of the step are met, never back
advance(l, c, confident) ==
    CASE l = "EMPTY" /\ Volume(c) >= SeedThreshold -> "SEEDED"
      [] /\ l = "SEEDED"
         /\ Volume(c) >= EnhanceThreshold
         /\ Diversity(c) >= MinDiversity
         /\ confident -> "ENHANCED"
      [] OTHER -> l

InitEngine ==
    /\ level = "EMPTY"
    /\ corpus = [type \in MemoryTypes |-> 0]

\* ingestion writes a chunk of the profile's namespace
Ingest(type) ==
    /\ Volume(corpus) < MaxCorpus
    /\ corpus' = [corpus EXCEPT ![type] = @ + 1]
    /\ UNCHANGED <<level, trainerVars, chatVars, storeVars, uploadVars, setupVars, scrollVars>>

\* a chunk is deleted: by its owner, or by the retention sweep
Forget(type) ==
    /\ corpus[type] > 0
    /\ corpus' = [corpus EXCEPT ![type] = @ - 1]
    /\ UNCHANGED <<level, trainerVars, chatVars, storeVars, uploadVars, setupVars, scrollVars>>

\* update: the engine analyses the chunks; confident is whether the trait
\* weights it finds are confident enough
UpdateProfile(confident) ==
    /\ level' = advance(level, corpus, confident)
    /\ UNCHANGED <<corpus, trainerVars, chatVars, storeVars, uploadVars, setupVars, scrollVars>>

-----------------------------------------------------------------------------
(* Specifications *)

\* the page: the experience object is constructed, the document is loading
InitRest == InitEngine /\ InitUpload /\ InitSetup /\ InitScroll

InitPage == InitTrainer /\ InitChat /\ InitStore /\ InitRest

\* the class: a trainer has been constructed
Init ==
    /\ memoryTrainer = constructor
    /\ localStorage \in EarlierItems
    /\ now = 0
    /\ user = "A"
    /\ emotionalState = "melancholic_caring"
    /\ heart = [currentEmotionalState |-> "hopeful", glitchIntensity |-> 3]
    /\ isInitialized = FALSE
    /\ lastResponse = NoResponse
    /\ calls = NoCalls
    /\ InitChat
    /\ InitStore
    /\ InitRest

Next ==
    \/ Tick
    \/ \E input \in InteractionInputs, stored \in Outcomes : RecordInteraction(input, stored)
    \/ \E emotion \in EmotionInputs, stored \in Outcomes : RecordEmotion(emotion, stored)
    \/ \E stored \in Outcomes : ConsolidateTimer(stored)
    \/ LoadFromStorage
    \/ \E owner \in Users : Construct(owner)

Spec == Init /\ [][Next]_vars

NextRespond ==
    \/ \E input \in InteractionInputs, stored \in Outcomes : RecordInteraction(input, stored)
    \/ \E stored \in Outcomes : ConsolidateTimer(stored)
    \/ LoadFromStorage
    \/ \E input \in UserInputs, random \in 0..2 : GetPersonalizedResponse(input, random)
    \/ \E owner \in Users : Construct(owner)

SpecRespond == Init /\ [][NextRespond]_vars

\* the personality profile: what writes it, and the clock of the records
NextProfile ==
    \/ Tick
    \/ \E emotion \in EmotionInputs, stored \in Outcomes : RecordEmotion(emotion, stored)
    \/ LoadFromStorage
    \/ \E owner \in Users : Construct(owner)

SpecProfile == Init /\ [][NextProfile]_vars

\* responses of one trainer, with and without memories
NextCold ==
    \/ \E input \in InteractionInputs, stored \in Outcomes : RecordInteraction(input, stored)
    \/ \E stored \in Outcomes : ConsolidateTimer(stored)
    \/ LoadFromStorage
    \/ \E input \in UserInputs, random \in 0..2 : GetPersonalizedResponse(input, random)

SpecCold == Init /\ [][NextCold]_vars

NextPage ==
    \/ \E random \in RandomTenths : DOMContentLoaded(random)
    \/ \E emotion \in EmotionInputs, stored \in Outcomes : RecordEmotion(emotion, stored)
    \/ \E random \in RandomTenths : EmotionalStateTimer(random)
    \/ \E state \in HeartStates \cup {"numb"} : SetEmotionalState(state)
    \/ HeartbeatTimer
    \/ \E owner \in Users : Reload(owner)

SpecPage == InitPage /\ [][NextPage]_vars

\* the chat and the Memory Store start with nothing in the browser
InitQuiet == Init /\ localStorage = NoItem

NextChat ==
    \/ \E text \in ChatInputs : TypeMessage(text)
    \/ SendMessage
    \/ \E turn \in 1..MaxTurns, outcome \in FetchOutcomes : FetchSettles(turn, outcome)
    \/ \E turn \in 1..MaxTurns, body \in BodyOutcomes : JsonSettles(turn, body)

SpecChat == InitQuiet /\ [][NextChat]_vars

NextDelete ==
    \/ \E namespace \in Namespaces : Write(namespace, "long_term")
    \/ \E namespace \in Namespaces : Search(namespace)
    \/ \E namespace \in Namespaces : Tombstone(namespace)
    \/ \E chunk \in chunks : Purge(chunk)
    \/ \E namespace \in Namespaces : DeleteDone(namespace)

SpecDelete == InitQuiet /\ [][NextDelete]_vars

\* a session in progress: its trainer, and the item its last save wrote
InitHistory ==
    /\ memoryTrainer \in HistoryStarts
    /\ localStorage = IF memoryTrainer = constructor THEN NoItem
                      ELSE serialized(memoryTrainer, -1)
    /\ now = 0
    /\ user = "A"
    /\ emotionalState = "melancholic_caring"
    /\ heart = [currentEmotionalState |-> "hopeful", glitchIntensity |-> 3]
    /\ isInitialized = FALSE
    /\ lastResponse = NoResponse
    /\ calls = NoCalls
    /\ InitChat
    /\ InitStore
    /\ InitRest

NextHistory ==
    \/ Tick
    \/ \E input \in InteractionInputs, stored \in Outcomes : RecordInteraction(input, stored)
    \/ \E emotion \in EmotionInputs, stored \in Outcomes : RecordEmotion(emotion, stored)

SpecHistory == InitHistory /\ [][NextHistory]_vars

\* a session in progress with memories consolidated
InitMemories ==
    /\ memoryTrainer \in MemoryStarts
    /\ localStorage = IF memoryTrainer = constructor THEN NoItem
                      ELSE serialized(memoryTrainer, -1)
    /\ now = 0
    /\ user = "A"
    /\ emotionalState = "melancholic_caring"
    /\ heart = [currentEmotionalState |-> "hopeful", glitchIntensity |-> 3]
    /\ isInitialized = FALSE
    /\ lastResponse = NoResponse
    /\ calls = NoCalls
    /\ InitChat
    /\ InitStore
    /\ InitRest

NextMemories ==
    \/ Tick
    \/ \E input \in InteractionInputs, stored \in Outcomes : RecordInteraction(input, stored)
    \/ \E stored \in Outcomes : ConsolidateTimer(stored)

SpecMemories == InitMemories /\ [][NextMemories]_vars

NextRelevant ==
    \/ \E input \in InteractionInputs, stored \in Outcomes : RecordInteraction(input, stored)
    \/ \E stored \in Outcomes : ConsolidateTimer(stored)
    \/ \E input \in Queries : GetPersonalizedResponse(input, 0)

SpecRelevant == InitMemories /\ [][NextRelevant]_vars

\* a session in progress that has recorded emotions: none, one that is no
\* trait 120 times (a weight has decayed to 0), or a trait 5 times (its
\* weight has reached 1)
InitTraits ==
    /\ memoryTrainer \in {constructor, EarlierSession("neutral", 120),
                          EarlierSession("empathetic", 5)}
    /\ localStorage = IF memoryTrainer = constructor THEN NoItem
                      ELSE serialized(memoryTrainer, 0)
    /\ now = 0
    /\ user = "A"
    /\ emotionalState = "melancholic_caring"
    /\ heart = [currentEmotionalState |-> "hopeful", glitchIntensity |-> 3]
    /\ isInitialized = FALSE
    /\ lastResponse = NoResponse
    /\ calls = NoCalls
    /\ InitChat
    /\ InitStore
    /\ InitRest

NextTraits ==
    \/ Tick
    \/ \E input \in InteractionInputs, stored \in Outcomes : RecordInteraction(input, stored)
    \/ \E emotion \in EmotionInputs, stored \in Outcomes : RecordEmotion(emotion, stored)

SpecTraits == InitTraits /\ [][NextTraits]_vars

NextScroll ==
    \/ Tick
    \/ \E y \in 0..MaxScroll : Scroll(y)
    \/ \E stored \in [Range(FadeElements) -> BOOLEAN] : AnimationFrame(stored)

SpecScroll == InitQuiet /\ [][NextScroll]_vars

NextUpload ==
    \/ \E files \in FileLists : Drop(files)
    \/ \E files \in FileLists : Change(files)
    \/ \E k \in 1..MaxUploads, step \in ProgressSteps : ProgressInterval(k, step)
    \/ \E k \in 1..MaxUploads, outcome \in UploadFetchOutcomes : UploadFetchSettles(k, outcome)
    \/ \E k \in 1..MaxUploads, body \in UploadBodyOutcomes : UploadJsonSettles(k, body)
    \/ \E k \in 1..MaxUploads : HideTimeout(k)

SpecUpload == InitQuiet /\ [][NextUpload]_vars

NextInit ==
    \/ NewExperience
    \/ init
    \/ \E random \in RandomTenths : DOMContentLoaded(random)
    \/ \E emotion \in EmotionInputs, stored \in Outcomes : RecordEmotion(emotion, stored)
    \/ \E random \in RandomTenths : EmotionalStateTimer(random)

\* the page before the script has run: the document may be loaded before
\* the script runs, or after
InitScript ==
    /\ InitTrainer /\ InitChat /\ InitStore /\ InitEngine /\ InitUpload
    /\ InitScroll
    /\ documentLoaded = FALSE
    /\ listeners = 0
    /\ setupRuns = 0

SpecInit == InitScript /\ [][NextInit]_vars

NextEngine ==
    \/ \E type \in MemoryTypes : Ingest(type)
    \/ \E type \in MemoryTypes : Forget(type)
    \/ \E confident \in BOOLEAN : UpdateProfile(confident)

SpecEngine == InitQuiet /\ [][NextEngine]_vars

NextRetention ==
    \/ StoreTick
    \/ \E class \in RetentionClasses : Write(<<"A", "X">>, class)
    \/ ApplyRetention

SpecRetention == InitQuiet /\ [][NextRetention]_vars

-----------------------------------------------------------------------------
(* Claims *)

\* C1 Namespace isolation: a memory written on behalf of one owner is never
\* among the memories findRelevantMemories returns to another owner.
NamespaceIsolation ==
    lastResponse # NoResponse =>
        \A i \in 1..Len(lastResponse.relevant) :
            lastResponse.relevant[i].writer = lastResponse.user

\* the turns of the chat that have settled
Settled == {turn \in 1..Len(requests) : requests[turn].pc = "done"}

Positions(kind, turn) ==
    {i \in 1..Len(chatMessages) :
        chatMessages[i].kind = kind /\ chatMessages[i].turn = turn}

\* C2 A settled turn has no typing indicator left and exactly one reply of
\* the companion (of the server, or the fallback), after the user's message.
TurnNeverHardFails ==
    \A turn \in Settled :
        /\ Positions("typing", turn) = {}
        /\ Cardinality(Positions("prabh", turn)) = 1
        /\ \A i \in Positions("prabh", turn) :
              /\ chatMessages[i].text \in {"server", FallbackText}
              /\ \E j \in Positions("user", turn) : j < i

\* C2 witness: one turn settled with the reply of the server, another with
\* the fallback after a body without a text.
TurnNeverHardFailsWitness ==
    /\ \E turn \in Settled : requests[turn].toast = "error"
    /\ \E turn \in Settled : requests[turn].toast = "info"
    /\ \E i \in 1..Len(chatMessages) : chatMessages[i].text = FallbackText
    /\ \E i \in 1..Len(chatMessages) : chatMessages[i].text = "server"

TimerStep == (\E random \in RandomTenths : EmotionalStateTimer(random)) \/ HeartbeatTimer

\* C5 No timer callback changes the emotional state or a value derived
\* from it.
NoTimerChangesEmotion ==
    [][TimerStep => /\ emotionalState' = emotionalState
                    /\ heart' = heart]_vars

\* C6 Two consecutive responses to the same input from the same profile and
\* memories are the same text.
DeterministicGeneration ==
    [][(/\ lastResponse # NoResponse
        /\ lastResponse' # NoResponse
        /\ lastResponse'.input = lastResponse.input
        /\ lastResponse'.profile = lastResponse.profile
        /\ lastResponse'.stored = lastResponse.stored)
       => lastResponse'.response = lastResponse.response]_vars

\* C7 With no memory stored, the response is one of the sentences of the
\* personality, made from zero memories and without the memory sentence.
ColdStart ==
    (lastResponse # NoResponse /\ lastResponse.stored = <<>>) =>
        /\ lastResponse.relevant = <<>>
        /\ lastResponse.response.memoryClause = FALSE
        /\ lastResponse.response.template[1] \in ResponseEmotions
        /\ lastResponse.response.template[2] \in 0..2

\* C7 witness: a response to the empty input, which every text contains,
\* made with no memory stored although interactions were recorded.
ColdStartWitness ==
    /\ lastResponse # NoResponse
    /\ lastResponse.stored = <<>>
    /\ lastResponse.input = <<"">>
    /\ memoryTrainer # Null
    /\ memoryTrainer.interactions # <<>>

Payload(memory) == <<memory.interactions, memory.emotions>>

\* C8 No two stored memories carry the same payload: consolidating again
\* without new data does not store the memory a second time.
IdempotentWrite ==
    memoryTrainer # Null =>
        \A i, j \in 1..Len(memoryTrainer.memories) :
            i # j => Payload(memoryTrainer.memories[i]) #
                     Payload(memoryTrainer.memories[j])

RetentionSweepCorrect ==
    lastSweep # Nothing =>
        /\ \A c \in lastSweep.after : ~Expired(c, lastSweep.time)
        /\ \A c \in lastSweep.before :
              ~Expired(c, lastSweep.time) => c \in lastSweep.after
        /\ lastSweep.after \subseteq lastSweep.before

\* C10 witness: a sweep that deleted a short_term chunk and kept a
\* mid_term or long_term chunk as old as it, and a short_term chunk within
\* the TTL.
RetentionSweepCorrectWitness ==
    /\ lastSweep # Nothing
    /\ lastSweep.after # lastSweep.before
    /\ \E c \in lastSweep.after :
          /\ c.retention_class # "short_term"
          /\ lastSweep.time - c.created_at > TTL
    /\ \E c \in lastSweep.after : c.retention_class = "short_term"

\* C11 The state of a profile takes one step forward or stays, never goes
\* back, and the step from SEEDED to ENHANCED is taken only with the volume
\* of ENHANCED and the minimum diversity of memory_type values.
ProfileAdvances ==
    [][/\ Rank(level') >= Rank(level)
       /\ Rank(level') <= Rank(level) + 1
       /\ (level = "SEEDED" /\ level' = "ENHANCED") =>
              /\ Volume(corpus) >= EnhanceThreshold
              /\ Diversity(corpus) >= MinDiversity]_vars

\* C11 witness: a profile that is ENHANCED after its chunks were deleted
\* down to less than the volume of SEEDED, of one memory_type.
ProfileAdvancesWitness ==
    /\ level = "ENHANCED"
    /\ Volume(corpus) > 0
    /\ Volume(corpus) < SeedThreshold
    /\ Diversity(corpus) < MinDiversity

AllUploadsDone == \A k \in 1..Len(uploads) : uploads[k].pc = "done"

\* C12 When the uploads have ended, every file that was submitted has an
\* upload of its own with its one outcome.
PerFileOutcome ==
    AllUploadsDone =>
        \A file \in submitted :
            \E k \in 1..Len(uploads) :
                uploads[k].file = file /\ Len(uploads[k].toasts) = 1

\* C19 An upload that has reached its outcome has exactly one toast and
\* its progress interval is cleared; when all uploads have ended the
\* progress bar is hidden.
UploadEndsClean ==
    /\ \A k \in 1..Len(uploads) :
          /\ Len(uploads[k].toasts) <= 1
          /\ uploads[k].pc = "done" => Len(uploads[k].toasts) = 1
          /\ uploads[k].toasts # <<>> => ~uploads[k].timer
    /\ (uploads # <<>> /\ AllUploadsDone) => progressBar.display = "none"

\* C20 Once the object is constructed and the document is loaded, the
\* setup sequence has run exactly once.
SetupRunsOnce == (listeners > 0 /\ documentLoaded) => setupRuns = 1

Restored(t, item) ==
    /\ t.interactions = item.interactions
    /\ t.emotions = item.emotions
    /\ t.memories = item.memories
    /\ t.personalityProfile = item.personalityProfile

\* C13 The trainer a session starts with holds the interactions, emotions,
\* memories and profile that were saved last.
PersistenceRoundTrip ==
    [][(~isInitialized /\ isInitialized' /\ localStorage # NoItem)
       => Restored(memoryTrainer', localStorage)]_vars

\* C14 The replies of the companion stand in the conversation in the order
\* of the user messages they answer.
RepliesInOrder ==
    \A i, j \in 1..Len(chatMessages) :
        (/\ chatMessages[i].kind = "prabh"
         /\ chatMessages[j].kind = "prabh"
         /\ chatMessages[i].turn < chatMessages[j].turn) => i < j

\* new is old with one entry appended, cut to its last cap entries
Appended(old, new, cap) ==
    LET k == Len(new)
    IN /\ k = Min(Len(old) + 1, cap)
       /\ \A i \in 1..(k - 1) : new[i] = old[Len(old) - (k - 1) + i]

\* C15 The interaction history never holds more than 100 entries and a
\* recordInteraction leaves the most recent min(n, 100) of them in recording
\* order, the new one last; the emotion history likewise with 50.
HistoriesCapped ==
    [][/\ Len(memoryTrainer'.interactions) <= 100
       /\ Len(memoryTrainer'.emotions) <= 50
       /\ calls'.interaction > calls.interaction =>
              /\ Appended(memoryTrainer.interactions,
                          memoryTrainer'.interactions, 100)
              /\ memoryTrainer'.interactions[Len(memoryTrainer'.interactions)].timestamp = now
              /\ memoryTrainer'.emotions = memoryTrainer.emotions
       /\ calls'.emotion > calls.emotion =>
              /\ Appended(memoryTrainer.emotions, memoryTrainer'.emotions, 50)
              /\ memoryTrainer'.emotions[Len(memoryTrainer'.emotions)].timestamp = now
              /\ memoryTrainer'.interactions = memoryTrainer.interactions]_vars

\* C15 witness: both histories are full, an interaction and an emotion were
\* recorded last, and the oldest entries of the full session are gone.
HistoriesCappedWitness ==
    /\ calls.interaction > 0
    /\ calls.emotion > 0
    /\ Len(memoryTrainer.interactions) = 100
    /\ Len(memoryTrainer.emotions) = 50
    /\ memoryTrainer.interactions[1] = Recorded(100, 50).interactions[2]
    /\ memoryTrainer.emotions[1] = Recorded(100, 50).emotions[2]
    /\ memoryTrainer.interactions[100].timestamp >= 0

CountIn(seq, x) == Cardinality({i \in 1..Len(seq) : seq[i] = x})

\* the memory a consolidation creates from the state before it
Created ==
    LET recentInteractions == LastN(memoryTrainer.interactions, 10)
        recentEmotions == LastN(memoryTrainer.emotions, 5)
    IN [interactions |-> recentInteractions,
        emotions |-> recentEmotions,
        timestamp |-> now,
        importance |-> calculateImportance(recentInteractions, recentEmotions, now),
        writer |-> user]

\* kept is made of at most 20 memories of pool, in an order of
\* non-increasing importance, and no memory left out is more important
\* than one that is kept
TopOf(pool, kept) ==
    /\ Len(kept) = Min(Len(pool), 20)
    /\ \A i \in 1..(Len(kept) - 1) : kept[i].importance >= kept[i + 1].importance
    /\ \A x \in Range(kept) : CountIn(kept, x) <= CountIn(pool, x)
    /\ \A x \in Range(pool) :
          CountIn(kept, x) < CountIn(pool, x) =>
              \A y \in Range(kept) : x.importance <= y.importance

\* C16 A consolidation leaves at most 20 memories, sorted by non-increasing
\* importance, the most important of those kept before and the new one;
\* with no interaction recorded it changes nothing.
ConsolidationKeepsTop ==
    [][calls'.consolidate > calls.consolidate =>
          IF memoryTrainer.interactions = <<>>
          THEN memoryTrainer' = memoryTrainer /\ localStorage' = localStorage
          ELSE TopOf(Append(memoryTrainer.memories, Created),
                     memoryTrainer'.memories)]_vars

\* C16 witness: the list is full, the least important memory of the full
\* session is gone, and a memory made in this session stands neither first
\* nor last.
ConsolidationKeepsTopWitness ==
    /\ calls.consolidate > 0
    /\ Len(memoryTrainer.memories) = 20
    /\ memoryTrainer.memories[20] # Rounds(20).memories[20]
    /\ \E i \in 2..19 :
          /\ memoryTrainer.memories[i].timestamp >= 0
          /\ memoryTrainer.memories[i - 1].importance > memoryTrainer.memories[i].importance
          /\ memoryTrainer.memories[i].importance > memoryTrainer.memories[i + 1].importance

\* the memory contains one of the words of the input
Hit(memory, input) == \E i \in 1..Len(input) : input[i] \in MemoryText(memory)

\* C17 findRelevantMemories returns at most three stored memories, each
\* containing a word of the input, in non-increasing importance, and leaves
\* out no memory that contains a word and is more important than one it
\* returns (none at all, when it returns less than three).
RelevantTopThree ==
    lastResponse # NoResponse =>
        LET relevant == lastResponse.relevant
            stored == lastResponse.stored
            input == lastResponse.input
            hits == {i \in 1..Len(stored) : Hit(stored[i], input)}
        IN /\ Len(relevant) = Min(3, Cardinality(hits))
           /\ \A i \in 1..Len(relevant) :
                 /\ Hit(relevant[i], input)
                 /\ CountIn(relevant, relevant[i]) <= CountIn(stored, relevant[i])
           /\ \A i \in 1..(Len(relevant) - 1) :
                 relevant[i].importance >= relevant[i + 1].importance
           /\ \A i \in hits :
                 CountIn(relevant, stored[i]) < CountIn(stored, stored[i]) =>
                     \A j \in 1..Len(relevant) :
                         stored[i].importance <= relevant[j].importance

\* C17 witness: a search of a full list for two words, one of them in some
\* memories, that passes over the most important memory, which has neither.
RelevantTopThreeWitness ==
    /\ lastResponse # NoResponse
    /\ lastResponse.input = <<"sad", "teal">>
    /\ Len(lastResponse.stored) = 20
    /\ Len(lastResponse.relevant) > 0
    /\ ~Hit(lastResponse.stored[1], lastResponse.input)
    /\ lastResponse.relevant[1].importance < lastResponse.stored[1].importance

\* C18 Recording an emotion that names a trait adds the increment to its
\* weight, up to 1, and takes the decay step from every other weight, down
\* to 0.
TraitRecorded ==
    [][calls'.emotion > calls.emotion =>
          LET recorded == getCurrentEmotion(memoryTrainer')
              before == memoryTrainer.personalityProfile
              after == memoryTrainer'.personalityProfile
          IN recorded \in Traits =>
                /\ after[recorded] = Min(200, before[recorded] + 2)
                /\ \A key \in Traits \ {recorded} :
                      after[key] = Max(0, before[key] - 1)]_vars

\* C21 The history holds at most one scroll_reveal interaction of each
\* fade-in element.
RevealedOnce ==
    memoryTrainer # Null =>
        \A i \in 1..Len(FadeElements) :
            Cardinality(Reveals(memoryTrainer, FadeElements[i])) <= 1

====
